---- MODULE Spec2Model ----
(***************************************************************************)
(* Model of include/qemu/range.h: 64 bit address ranges (struct Range),    *)
(* their construction, queries, extend/merge, and the sorted merged list   *)
(* insertion g_list_insert_sorted_merged with range_compare.               *)
(*                                                                         *)
(* uint64_t is modelled as the integers modulo 2^AddrBits: every +, - of   *)
(* the source is Add/Sub below, so wrap-around happens in the model        *)
(* exactly where it happens in the code.                                   *)
(***************************************************************************)
EXTENDS Integers, Sequences, FiniteSets

\* ---------------------------------------------------------------- bounds
\* Width of the modelled uint64_t, in bits.
AddrBits == 3
\* Number of g_list_insert_sorted_merged calls in one behaviour.
MaxInserts == 4

\* ------------------------------------------------------- program constants
\* errno value returned (negated) by range_init.
ERANGE == 34

\* -------------------------------------------------------------- uint64_t
Modulus == 2 ^ AddrBits
U64 == 0 .. (Modulus - 1)
\* ~0x0LL, the last byte of the address space.
MaxU64 == Modulus - 1
\* uint64_t addition and subtraction (wrapping).
Add(a, b) == (a + b) % Modulus
Sub(a, b) == (a - b + Modulus) % Modulus

\* ------------------------------------------------------------ struct Range
Range == [begin : U64, end : U64]
MkRange(b, e) == [begin |-> b, end |-> e]

\* #define range_empty ((Range){ .begin = 1, .end = 0 })
range_empty == MkRange(1, 0)

\* The condition asserted by range_invariant().
range_invariant(range) ==
    range.begin <= range.end \/ range.begin = Add(range.end, 1)

\* The struct values that satisfy range_invariant.
ValidRanges == {r \in Range : range_invariant(r)}

range_is_empty(range) == range.begin > range.end

\* The non-empty struct values that satisfy range_invariant.
NonEmptyRanges == {r \in ValidRanges : ~range_is_empty(r)}

\* range_overlaps_range with end taken as one past the last byte.
range_overlaps_range_excl(range1, range2) ==
    IF range_is_empty(range1) \/ range_is_empty(range2)
    THEN FALSE
    ELSE ~(range2.end <= range1.begin \/ range1.end <= range2.begin)

range_overlaps_range(range1, range2) ==
    IF range_is_empty(range1) \/ range_is_empty(range2)
    THEN FALSE
    ELSE ~(range2.end < range1.begin \/ range1.end < range2.begin)

range_size(range) == Add(Sub(range.end, range.begin), 1)

range_contains_range(range1, range2) ==
    IF range_is_empty(range1) \/ range_is_empty(range2)
    THEN FALSE
    ELSE range1.begin <= range2.begin /\ range1.end >= range2.end

\* range_init with its overflow check left out (what range_init_nofail does).
range_init_unchecked(range, lob, size) ==
    [ret |-> 0, range |-> MkRange(lob, Sub(Add(lob, size), 1))]

\* range_init with the overflow check applied to the last byte.
range_init_lastbyte(range, lob, size) ==
    IF Sub(Add(lob, size), 1) < lob
    THEN [ret |-> 0 - ERANGE, range |-> range]
    ELSE [ret |-> 0, range |-> MkRange(lob, Sub(Add(lob, size), 1))]

\* range_init(range, lob, size): the returned int and *range after the call.
range_init(range, lob, size) ==
    IF Add(lob, size) < lob
    THEN [ret |-> 0 - ERANGE, range |-> range]
    ELSE [ret |-> 0, range |-> MkRange(lob, Sub(Add(lob, size), 1))]

\* range_init_nofail(range, begin, size): *range after the call.
range_init_nofail(begin, size) == MkRange(begin, Sub(Add(begin, size), 1))

\* range_extend(range, extend_by): *range after the call.
range_extend(range, extend_by) ==
    IF extend_by.begin = 0 /\ extend_by.end = 0
    THEN range
    ELSE IF range.begin = 0 /\ range.end = 0
    THEN extend_by
    ELSE LET b == IF range.begin > extend_by.begin
                  THEN extend_by.begin ELSE range.begin
             e == IF Sub(range.end, 1) < Sub(extend_by.end, 1)
                  THEN extend_by.end ELSE range.end
         IN  MkRange(b, e)

range_get_last(offset, len) == Sub(Add(offset, len), 1)

range_covers_byte(offset, len, byte) ==
    offset <= byte /\ byte <= range_get_last(offset, len)

ranges_overlap(first1, len1, first2, len2) ==
    LET last1 == range_get_last(first1, len1)
        last2 == range_get_last(first2, len2)
    IN  ~(last2 < first1 \/ last1 < first2)

\* ranges_can_merge with && written for ||.
ranges_can_merge_and(range1, range2) ==
    ~(range1.end < range2.begin /\ range2.end < range1.begin)

ranges_can_merge(range1, range2) ==
    ~(range1.end < range2.begin \/ range2.end < range1.begin)

\* range_merge(range1, range2): the returned int and *range1 after the call.
range_merge(range1, range2) ==
    IF ranges_can_merge(range1, range2)
    THEN LET e == IF range1.end < range2.end THEN range2.end ELSE range1.end
             b == IF range1.begin > range2.begin
                  THEN range2.begin ELSE range1.begin
         IN  [ret |-> 0, range |-> MkRange(b, e)]
    ELSE [ret |-> 0 - 1, range |-> range1]

range_compare(ra, rb) ==
    IF ra.begin = rb.begin /\ ra.end = rb.end
    THEN 0
    ELSE IF range_get_last(ra.begin, ra.end) < range_get_last(rb.begin, rb.end)
    THEN 0 - 1
    ELSE 1


\* ------------------------------------------------------------------ GList
\* A GList of Range pointers is a sequence of Range values; a GList* into it
\* is an index, and NULL is 0.  GLib is not part of this source tree: the
\* three g_list_ operations follow GLib's documented behaviour at the places
\* range.h calls them.
NULL == 0

\* g_list_next(l): NULL for NULL and for the last link.
g_list_next(list, l) == IF l = NULL \/ l >= Len(list) THEN NULL ELSE l + 1

\* g_list_remove_link(list, link): unlinks link; a NULL link leaves the list.
g_list_remove_link(list, link) ==
    IF link = NULL
    THEN list
    ELSE SubSeq(list, 1, link - 1) \o SubSeq(list, link + 1, Len(list))

\* g_list_insert_sorted(list, data, range_compare): data goes before the first
\* element it does not compare greater than, or at the end.
g_list_insert_sorted(list, data) ==
    LET before == {i \in 1 .. Len(list) : range_compare(data, list[i]) <= 0}
        pos == IF before = {} THEN Len(list) + 1
               ELSE CHOOSE i \in before : \A j \in before : i <= j
    IN  SubSeq(list, 1, pos - 1) \o <<data>> \o SubSeq(list, pos, Len(list))

\* The while loop of g_list_insert_sorted_merged: list, l, next, nextr as in
\* the source (has_nextr is nextr != NULL); yields the list and l at loop exit.
RECURSIVE merge_scan(_, _, _, _, _)
merge_scan(list, l, next, nextr, has_nextr) ==
    IF l = NULL \/ l = next \/ ~has_nextr
    THEN [list |-> list, l |-> l]
    ELSE LET r == list[l]
         IN  IF ranges_can_merge(r, nextr)
             THEN LET merged == [list EXCEPT ![l] = range_merge(r, nextr).range]
                      unlinked == g_list_remove_link(merged, next)
                      n == g_list_next(unlinked, l)
                  IN  merge_scan(unlinked, l, n,
                                 IF n # NULL THEN unlinked[n] ELSE nextr,
                                 n # NULL)
             ELSE merge_scan(list, g_list_next(list, l), next, nextr, has_nextr)

g_list_insert_sorted_merged(list, data) ==
    IF list = <<>>
    THEN g_list_insert_sorted(list, data)
    ELSE LET s == merge_scan(list, 1, NULL, data, TRUE)
         IN  IF s.l = NULL
             THEN g_list_insert_sorted(s.list, data)
             ELSE s.list

\* ------------------------------------------------------------------ state
VARIABLES
    r1, r2,       \* two Range objects
    pre1, pre2,   \* their values when the last call was made
    op,           \* the last call
    ret,          \* what the last call returned
    lob, size,    \* the arguments of the last range_init
    assert_ok,    \* no assert() of range.h has failed so far
    list,         \* the GList handed to g_list_insert_sorted_merged
    covered,      \* the addresses of every range inserted so far
    last,         \* the range of the last insertion
    nIns          \* the number of insertions so far

vars == <<r1, r2, pre1, pre2, op, ret, lob, size, assert_ok,
          list, covered, last, nIns>>

rangeVars == <<r1, r2, pre1, pre2, op, ret, lob, size, assert_ok>>
listVars == <<list, covered, last, nIns>>

\* The addresses of the closed interval [range.begin, range.end].
Addrs(range) == {a \in U64 : range.begin <= a /\ a <= range.end}

\* The state shared by every specification's initial condition.
InitRest ==
    /\ pre1 = r1 /\ pre2 = r2
    /\ op = "none" /\ ret = 0
    /\ lob = 0 /\ size = 0
    /\ assert_ok = TRUE
    /\ list = <<>> /\ covered = {} /\ last = range_empty /\ nIns = 0

\* --------------------------------------------- Spec: calls on two ranges
Init ==
    /\ r1 \in ValidRanges
    /\ r2 \in ValidRanges
    /\ InitRest

CallOverlaps ==
    /\ op' = "range_overlaps_range"
    /\ pre1' = r1 /\ pre2' = r2
    /\ ret' = range_overlaps_range(r1, r2)
    /\ assert_ok' = (assert_ok /\ range_invariant(r1) /\ range_invariant(r2))
    /\ UNCHANGED <<r1, r2, lob, size>>
    /\ UNCHANGED listVars

CallMerge ==
    /\ op' = "range_merge"
    /\ pre1' = r1 /\ pre2' = r2
    /\ ret' = range_merge(r1, r2).ret
    /\ r1' = range_merge(r1, r2).range
    /\ UNCHANGED <<r2, lob, size, assert_ok>>
    /\ UNCHANGED listVars

CallExtend ==
    /\ op' = "range_extend"
    /\ pre1' = r1 /\ pre2' = r2
    /\ ret' = 0
    /\ r1' = range_extend(r1, r2)
    /\ UNCHANGED <<r2, lob, size, assert_ok>>
    /\ UNCHANGED listVars

CallCompare ==
    /\ op' = "range_compare"
    /\ pre1' = r1 /\ pre2' = r2
    /\ ret' = range_compare(r1, r2)
    /\ UNCHANGED <<r1, r2, lob, size, assert_ok>>
    /\ UNCHANGED listVars

Next == CallOverlaps \/ CallMerge \/ CallExtend \/ CallCompare

Spec == Init /\ [][Next]_vars

\* ------------------------------------------------- SpecInit: range_init
InitI ==
    /\ r1 \in ValidRanges
    /\ r2 = range_empty
    /\ InitRest

\* The range_invariant(range) call inside range_init: reached only past the
\* overflow check, on the range just written.
init_assert(res) == res.ret = 0 => range_invariant(res.range)

\* One call range_init(&r1, l, s) on the range and arguments drawn.
CallInit ==
    \E l \in U64, s \in U64 :
        LET res == range_init(r1, l, s)
        IN  /\ op = "none"
            /\ op' = "range_init"
            /\ pre1' = r1 /\ pre2' = r2
            /\ lob' = l /\ size' = s
            /\ ret' = res.ret
            /\ r1' = res.range
            /\ assert_ok' = (assert_ok /\ init_assert(res))
            /\ UNCHANGED r2
            /\ UNCHANGED listVars

NextI == CallInit

SpecInit == InitI /\ [][NextI]_vars

\* ------------- SpecReach: ranges built from range_make_empty / range_init
InitR ==
    /\ r1 = range_empty
    /\ r2 = range_empty
    /\ InitRest

ReachMakeEmpty ==
    /\ op' = "range_make_empty"
    /\ \/ r1' = range_empty /\ UNCHANGED r2
       \/ r2' = range_empty /\ UNCHANGED r1
    /\ assert_ok' = (assert_ok /\ range_is_empty(range_empty))
    /\ UNCHANGED <<pre1, pre2, ret, lob, size>>
    /\ UNCHANGED listVars

\* A range_init call that passes the overflow check, on r1 or on r2.
ReachInit ==
    \E l \in U64, s \in U64 :
        /\ op' = "range_init"
        /\ \/ LET res == range_init(r1, l, s)
              IN  /\ res.ret = 0
                  /\ r1' = res.range
                  /\ assert_ok' = (assert_ok /\ init_assert(res))
                  /\ UNCHANGED r2
           \/ LET res == range_init(r2, l, s)
              IN  /\ res.ret = 0
                  /\ r2' = res.range
                  /\ assert_ok' = (assert_ok /\ init_assert(res))
                  /\ UNCHANGED r1
        /\ UNCHANGED <<pre1, pre2, ret, lob, size>>
        /\ UNCHANGED listVars

\* A range_init call that fails the overflow check: whatever its arguments,
\* it returns before it writes the range or asserts anything.
ReachInitFail ==
    /\ (\E l \in U64, s \in U64 :
            \/ range_init(r1, l, s).ret # 0 /\ range_init(r1, l, s).range = r1
            \/ range_init(r2, l, s).ret # 0 /\ range_init(r2, l, s).range = r2)
         = TRUE
    /\ op' = "range_init"
    /\ UNCHANGED <<r1, r2, pre1, pre2, ret, lob, size, assert_ok>>
    /\ UNCHANGED listVars

ReachExtend ==
    /\ op' = "range_extend"
    /\ \/ r1' = range_extend(r1, r2) /\ UNCHANGED r2
       \/ r2' = range_extend(r2, r1) /\ UNCHANGED r1
    /\ UNCHANGED <<pre1, pre2, ret, lob, size, assert_ok>>
    /\ UNCHANGED listVars

ReachMerge ==
    /\ op' = "range_merge"
    /\ \/ r1' = range_merge(r1, r2).range /\ UNCHANGED r2
       \/ r2' = range_merge(r2, r1).range /\ UNCHANGED r1
    /\ UNCHANGED <<pre1, pre2, ret, lob, size, assert_ok>>
    /\ UNCHANGED listVars

NextR ==
    ReachMakeEmpty \/ ReachInit \/ ReachInitFail \/ ReachExtend \/ ReachMerge

SpecReach == InitR /\ [][NextR]_vars

\* ------------------------ SpecList: g_list_insert_sorted_merged on a list
InitL ==
    /\ r1 = range_empty
    /\ r2 = range_empty
    /\ InitRest

Insert ==
    \E data \in NonEmptyRanges :
        /\ nIns < MaxInserts
        /\ list' = g_list_insert_sorted_merged(list, data)
        /\ covered' = covered \cup Addrs(data)
        /\ last' = data
        /\ nIns' = nIns + 1
        /\ UNCHANGED rangeVars

NextL == Insert

SpecList == InitL /\ [][NextL]_vars


\* ======================================================== the properties
Min(a, b) == IF a < b THEN a ELSE b
Max(a, b) == IF a < b THEN b ELSE a

\* Two closed intervals share at least one address.
Overlap(a, b) == Addrs(a) \cap Addrs(b) # {}

\* Two intervals are adjacent: no address lies between them.
Touch(a, b) == a.end + 1 = b.begin \/ b.end + 1 = a.begin

\* At least one address lies strictly between the two intervals.
Gap(a, b) ==
    \E x \in U64 : (a.end < x /\ x < b.begin) \/ (b.end < x /\ x < a.begin)

\* The zero-valued placeholder range_extend tests for.
IsZero(range) == range.begin = 0 /\ range.end = 0

C2_LastByteAllowed ==
    (op = "range_init" /\ size > 0 /\ lob + size - 1 <= MaxU64) =>
        /\ ret = 0
        /\ r1 = MkRange(lob, lob + size - 1)
        /\ ~range_is_empty(r1)

\* C3: range_merge of two non-empty ranges that overlap or touch returns 0,
\* makes r1 the union [min begin, max end] and leaves r2 alone.
C3_MergeOverlapOrTouch ==
    ( /\ op = "range_merge"
      /\ ~range_is_empty(pre1) /\ ~range_is_empty(pre2)
      /\ (Overlap(pre1, pre2) \/ Touch(pre1, pre2)) ) =>
        /\ ret = 0
        /\ r1 = MkRange(Min(pre1.begin, pre2.begin), Max(pre1.end, pre2.end))
        /\ r2 = pre2

\* C4: range_merge of two ranges with at least one address strictly between
\* them returns -1 and leaves both ranges as they were.
C4_MergeGapFails ==
    (op = "range_merge" /\ Gap(pre1, pre2)) =>
        /\ ret = 0 - 1
        /\ r1 = pre1
        /\ r2 = pre2

\* A failed merge of two non-empty ranges one address apart.
C4_Witness ==
    /\ op = "range_merge" /\ ret = 0 - 1
    /\ ~range_is_empty(pre1) /\ ~range_is_empty(pre2)
    /\ pre1.end + 2 = pre2.begin

\* C5: the list built by g_list_insert_sorted_merged is in strictly ascending
\* order of end, and no two of its entries overlap or can be merged.
C5_SortedDisjoint ==
    /\ \A i \in 1 .. (Len(list) - 1) : list[i].end < list[i + 1].end
    /\ \A i, j \in 1 .. Len(list) :
          i # j => /\ ~range_overlaps_range(list[i], list[j])
                   /\ ~ranges_can_merge(list[i], list[j])

\* C6: the list covers exactly the addresses inserted, and the range just
\* inserted lies in one entry, with no other entry left that it can merge with.
C6_CoverageCoalesced ==
    /\ UNION {Addrs(list[i]) : i \in 1 .. Len(list)} = covered
    /\ nIns > 0 =>
          \E i \in 1 .. Len(list) :
              /\ Addrs(last) \subseteq Addrs(list[i])
              /\ \A j \in 1 .. Len(list) :
                    j # i => ~ranges_can_merge(list[j], last)

\* C7: range_overlaps_range is false when either range is empty, is symmetric,
\* and for non-empty ranges is true exactly when the closed intervals share
\* an address.
C7_OverlapsContract ==
    op = "range_overlaps_range" =>
        /\ (range_is_empty(pre1) \/ range_is_empty(pre2)) => ret = FALSE
        /\ ret = range_overlaps_range(pre2, pre1)
        /\ (~range_is_empty(pre1) /\ ~range_is_empty(pre2)) =>
              (ret <=> Overlap(pre1, pre2))

\* Two non-empty ranges sharing exactly their boundary address overlap.
C7_Witness ==
    /\ op = "range_overlaps_range" /\ ret = TRUE
    /\ pre1.begin < pre1.end /\ pre1.end = pre2.begin /\ pre2.begin < pre2.end

\* C8: range_extend(r, by) leaves every address of r and of by in r when
\* neither is the zero-valued placeholder; a placeholder by leaves r alone and
\* a placeholder r becomes a copy of by.
C8_ExtendIncludes ==
    op = "range_extend" =>
        /\ (~IsZero(pre1) /\ ~IsZero(pre2)) =>
              (Addrs(pre1) \cup Addrs(pre2)) \subseteq Addrs(r1)
        /\ IsZero(pre2) => r1 = pre1
        /\ (IsZero(pre1) /\ ~IsZero(pre2)) => r1 = pre2

\* C9: every range built from range_make_empty and successful range_init by
\* range_extend and range_merge satisfies range_invariant, and the assertion
\* inside range_init never fails.
C9_InvariantKept ==
    /\ range_invariant(r1)
    /\ range_invariant(r2)
    /\ assert_ok

\* After a range_extend, r1 strictly encloses a non-empty r2.
C9_Witness ==
    /\ op = "range_extend"
    /\ ~range_is_empty(r2)
    /\ r1.begin < r2.begin /\ r2.end < r1.end

\* C10: range_compare is 0 exactly for equal bounds, and for different ranges
\* compare(a, b) and compare(b, a) have opposite signs.
C10_CompareConsistent ==
    op = "range_compare" =>
        /\ (ret = 0) <=> (pre1 = pre2)
        /\ (pre1 # pre2) => {ret, range_compare(pre2, pre1)} = {0 - 1, 1}

====
